---- MODULE Spec2Model ----
(***************************************************************************)
(* Model of the render-scale histogram control                             *)
(* (src/src/neuroglancer/widget/render_scale_widget.ts).                    *)
(*                                                                         *)
(* Representation of numbers.  Every render-scale value the control        *)
(* handles is a positive real that the code only ever multiplies by a      *)
(* power of two, compares, clamps, or converts to and from a histogram     *)
(* offset with log2 / 2**.  The model therefore holds a value v by its     *)
(* base-2 logarithm, an exact rational <<n, d>> (d > 0, lowest terms):     *)
(*    v * 2**s        is   Lg(v) + s                                       *)
(*    2**e            is   e                                               *)
(*    v <= w          is   Lg(v) <= Lg(w)                                  *)
(* Floating-point rounding is not modelled.                                *)
(*                                                                         *)
(* Counts and pixel coordinates are integers.  The draw pass rounds        *)
(*    height - log(1 + count) * height / log(1 + maxCount);                *)
(* the model finds that integer exactly, by comparing integer powers of    *)
(* 1 + count and 1 + maxCount.  A colour is held by the key, saturation    *)
(* and colour value it is computed from, a text by its parts.              *)
(***************************************************************************)
EXTENDS Integers, Sequences, FiniteSets, TLC

VARIABLES
  widgetClass,     \* which class was constructed (base or sign-inverted variant)
  target,          \* this.target.value (base-2 logarithm)
  hoverTarget,     \* this.hoverTarget.value: None or <<value, y>>
  histogramData,   \* histogram.value, the shared counter buffer
  spatialScales,   \* histogram.spatialScales: key |-> row index
  fakeChunkCount,  \* histogram.fakeChunkCount
  visible,         \* histogram.visibility.visible
  offsetWidth,     \* canvas.offsetWidth, the layout width of the surface
  offsetHeight,    \* canvas.offsetHeight, the layout height of the surface
  canvasWidth,     \* canvas.width, as assigned by the last draw pass
  sched,           \* timers of throttledUpdateView / debouncedUpdateView
  listeners,       \* handlers and observers still attached
  drawn,           \* what the draw pass of the last step read, None if it ran none
  painted,         \* what that draw pass painted and wrote, None if none ran
  lastEvent,       \* the handler that ran last, with its event
  turn,            \* draw passes counted since the last turn that raised triggers
  upRun            \* consecutive wheel increases counted from target 2**2

vars == <<widgetClass, target, hoverTarget, histogramData, spatialScales,
          fakeChunkCount, visible, offsetWidth, offsetHeight, canvasWidth, sched,
          listeners, drawn, painted, lastEvent, turn, upRun>>

\* undefined, as the absent value of the pair [value, y]
None == <<>>

-----------------------------------------------------------------------------
(* Exact rationals <<n, d>>.                                               *)

Abs(x) == IF x < 0 THEN -x ELSE x

RECURSIVE GCD(_, _)
GCD(a, b) == IF b = 0 THEN a ELSE GCD(b, a % b)

Rat(n, d) ==
  LET s == IF d < 0 THEN -1 ELSE 1
      g == GCD(Abs(n), Abs(d))
  IN  <<(s * n) \div g, (s * d) \div g>>

Whole(k) == <<k, 1>>
RatAdd(a, b) == Rat(a[1] * b[2] + b[1] * a[2], a[2] * b[2])
RatSub(a, b) == Rat(a[1] * b[2] - b[1] * a[2], a[2] * b[2])
RatMul(a, b) == Rat(a[1] * b[1], a[2] * b[2])
RatDiv(a, b) == Rat(a[1] * b[2], a[2] * b[1])
RatLe(a, b) == a[1] * b[2] <= b[1] * a[2]
RatLt(a, b) == a[1] * b[2] < b[1] * a[2]
RatMax(a, b) == IF RatLe(a, b) THEN b ELSE a
RatMin(a, b) == IF RatLe(a, b) THEN a ELSE b
RatFloor(a) == a[1] \div a[2]
\* Math.round: the nearest integer, halves rounded up.
RatRound(a) == (2 * a[1] + a[2]) \div (2 * a[2])

\* Math.sign
Sign(x) == IF x > 0 THEN 1 ELSE IF x < 0 THEN -1 ELSE 0

-----------------------------------------------------------------------------
(* Histogram geometry (neuroglancer/render_scale_statistics).              *)

numRenderScaleHistogramBins == 10
renderScaleHistogramBinSize == Whole(1)
renderScaleHistogramOrigin == 0

\* 2 ** (offset * renderScaleHistogramBinSize + origin), as a logarithm
getRenderScaleFromHistogramOffset(offset, origin) ==
  RatAdd(RatMul(offset, renderScaleHistogramBinSize), Whole(origin))

\* (Math.log2(renderScale) - origin) / renderScaleHistogramBinSize
getRenderScaleHistogramOffset(renderScale, origin) ==
  RatDiv(RatSub(renderScale, Whole(origin)), renderScaleHistogramBinSize)

\* Math.min(Math.max(range[0], value), range[1])
clampToInterval(range, value) == RatMin(RatMax(range[1], value), range[2])

-----------------------------------------------------------------------------
(* Bounds of the environment.                                              *)

NumRows == 2                       \* registered spatial scales
MaxBurst == 2                      \* data-change signals raised in one turn
UpRunCap == 21                     \* wheel increases counted in a row

Widths == {10, 20}                 \* layout widths of the surface
PointerXs == {7, 19}               \* event.offsetX
PointerYs == {3}                   \* event.offsetY
WheelDeltas == {-2, 0, 1}          \* event.deltaY
DefaultTarget == Whole(2)          \* the target's configured default, 2**2
CallerTargets == {Whole(-3), Whole(12)}   \* values the owner of the target assigns

\* the narrower gestures of the redraw-scheduling specification
RedrawXs == {19}
RedrawDeltas == {0, 1}
RedrawTargets == {Whole(-3)}

\* the surface height and the registry of the control specifications
CanvasHeight == 4
KeysInArrivalOrder == <<10, 2, 9>>    \* the spatial scales, as the producer met them
FirstRegistry ==
  [k \in {KeysInArrivalOrder[r] : r \in 1 .. NumRows}
     |-> (CHOOSE r \in 1 .. NumRows : KeysInArrivalOrder[r] = k) - 1]

\* the inputs of the draw-pass specification
ScaleKeys == {KeysInArrivalOrder[r] : r \in 1 .. Len(KeysInArrivalOrder)}
Registries ==
  {f \in UNION {[S -> 0 .. NumRows - 1] : S \in SUBSET ScaleKeys} :
     /\ Cardinality(DOMAIN f) = NumRows
     /\ \A j, k \in DOMAIN f : f[j] = f[k] => j = k}
FakeCounts == {0, 1}
DrawWidths == {10, 12}
DrawXs == {2, 3, 8}
DrawYs == {0, 1, 3, 5}
DrawTargets == {Rat(-3, 2), Whole(11)}

Classes == {"RenderScaleWidget", "VolumeRenderingRenderScaleWidget"}

Cells == 0 .. (2 * numRenderScaleHistogramBins * NumRows - 1)
ZeroData == [i \in Cells |-> 0]
\* the producer leaves counts in bins 0 and 3 of row 0
ProducerFrames ==
  {[i \in Cells |-> IF i \in {0, 3, numRenderScaleHistogramBins} THEN 1 ELSE 0]}

\* the cell of a row, a half (0 present, 1 not present) and a bin
Cell(row, half, bin) ==
  row * numRenderScaleHistogramBins * 2 + half * numRenderScaleHistogramBins + bin

\* frames with two series in bin 2, one in bin 5 and one in bin 8
DrawFrames ==
  {[i \in Cells |->
      IF i \in {Cell(0, 0, 2), Cell(0, 1, 2), Cell(1, 0, 2), Cell(1, 1, 5)} THEN 1
      ELSE IF i = Cell(0, 0, 8) THEN 2 ELSE 0],
   [i \in Cells |->
      IF i \in {Cell(0, 0, 2), Cell(1, 1, 2), Cell(1, 0, 5), Cell(0, 1, 8)} THEN 1
      ELSE IF i = Cell(0, 0, 8) THEN 2 ELSE 0]}

AllHandlers ==
  {"histogram.changed", "visibility.changed", "target.changed", "hoverTarget.changed",
   "pointermove", "pointerleave", "set", "adjust-via-wheel", "reset", "resize"}

-----------------------------------------------------------------------------
(* Fields and methods of the widget.                                       *)

VolumeRenderingLogScaleOrigin == 1

\* this.logScaleOrigin once construction has finished
logScaleOrigin(cls) ==
  IF cls = "VolumeRenderingRenderScaleWidget"
    THEN VolumeRenderingLogScaleOrigin
    ELSE renderScaleHistogramOrigin

\* variant: the derived class does not override getWheelMoveValue
getWheelMoveValue_notInverted(cls, deltaY) == deltaY

getWheelMoveValue(cls, deltaY) ==
  IF cls = "VolumeRenderingRenderScaleWidget" THEN -deltaY ELSE deltaY

logScaleMax(cls) ==
  RatRound(RatAdd(Whole(logScaleOrigin(cls)),
                  RatMul(Whole(numRenderScaleHistogramBins), renderScaleHistogramBinSize)))

\* variant: the upper end is 2 ** logScaleMax
WheelRange_oneHigher(cls) == <<Whole(logScaleOrigin(cls)), Whole(logScaleMax(cls))>>

\* the interval handed to clampToInterval by adjustViaWheel
WheelRange(cls) == <<Whole(logScaleOrigin(cls)), Whole(logScaleMax(cls) - 1)>>

\* variant: the product is assigned without clamping
WheelTarget_unclamped(cls, value, deltaY) == RatAdd(value, Whole(Sign(deltaY)))

\* the value adjustViaWheel assigns to the target
WheelTarget(cls, value, deltaY) ==
  clampToInterval(WheelRange(cls), RatAdd(value, Whole(Sign(deltaY))))

\* getTargetValue: event.offsetX / canvas.width * bins, through the transform
getTargetValue(cls, offsetX, width) ==
  getRenderScaleFromHistogramOffset(
    RatMul(Rat(offsetX, width), Whole(numRenderScaleHistogramBins)),
    logScaleOrigin(cls))

-----------------------------------------------------------------------------
(* Redraw scheduling.  sched = [thTimer, thPending, debTimer]:             *)
(*   thTimer    the interval timer of throttledUpdateView is running       *)
(*   thPending  a call arrived while it ran (a trailing call is owed)      *)
(*   debTimer   the zero-delay timer of debouncedUpdateView is running     *)

Idle == [thTimer |-> FALSE, thPending |-> FALSE, debTimer |-> FALSE]

\* debounce(() => this.updateView(), 0): a call starts the timer if none runs
debouncedUpdateView(s) == [s EXCEPT !.debTimer = TRUE]

\* throttle(() => this.debouncedUpdateView(), updateInterval, leading + trailing)
throttledUpdateView(s) ==
  IF s.thTimer
    THEN [s EXCEPT !.thPending = TRUE]
    ELSE debouncedUpdateView([s EXCEPT !.thTimer = TRUE, !.thPending = FALSE])

\* variant: the data-change signal is wired to the deferral directly
Dispatch_dataUnthrottled(name, ls, s, raised) ==
  IF raised /\ name \in ls THEN debouncedUpdateView(s) ELSE s

\* variant: the hover signal is not wired to a redraw
Dispatch_hoverUnheard(name, ls, s, raised) ==
  IF raised /\ name \in ls /\ name # "hoverTarget.changed"
    THEN IF name = "histogram.changed" THEN throttledUpdateView(s)
                                       ELSE debouncedUpdateView(s)
    ELSE s

\* a signal dispatches to its handler only while the handler is attached
Dispatch(name, ls, s, raised) ==
  IF raised /\ name \in ls
    THEN IF name = "histogram.changed" THEN throttledUpdateView(s)
                                       ELSE debouncedUpdateView(s)
    ELSE s

DrawPending(s) == s.debTimer \/ s.thPending

-----------------------------------------------------------------------------
(* Handlers, as functions of the state they read.                          *)

\* variant: the hover state survives the wheel action
adjustViaWheel_keepsHover(cls, value, hover, eventDeltaY) ==
  LET deltaY == getWheelMoveValue(cls, eventDeltaY) IN
  IF deltaY = 0
    THEN [target |-> value, hover |-> hover, prevented |-> FALSE]
    ELSE [target |-> WheelTarget(cls, value, deltaY), hover |-> hover,
          prevented |-> TRUE]

\* variant: no early return for a zero delta
adjustViaWheel_noZeroCheck(cls, value, hover, eventDeltaY) ==
  LET deltaY == getWheelMoveValue(cls, eventDeltaY) IN
  [target |-> WheelTarget(cls, value, deltaY), hover |-> None, prevented |-> TRUE]

\* adjustViaWheel: the target, the hover state and whether the wheel event
\* had preventDefault() called on it
adjustViaWheel(cls, value, hover, eventDeltaY) ==
  LET deltaY == getWheelMoveValue(cls, eventDeltaY) IN
  IF deltaY = 0
    THEN [target |-> value, hover |-> hover, prevented |-> FALSE]
    ELSE [target |-> WheelTarget(cls, value, deltaY), hover |-> None,
          prevented |-> TRUE]

\* variant: the clicked value is clamped like a wheel result
setListener_clamped(cls, value, hover, offsetX, width) ==
  [target |-> clampToInterval(WheelRange(cls), getTargetValue(cls, offsetX, width)),
   hover |-> hover]

\* the 'set' action listener
setListener(cls, value, hover, offsetX, width) ==
  [target |-> getTargetValue(cls, offsetX, width), hover |-> hover]

\* the 'pointermove' listener
pointermoveListener(cls, offsetX, offsetY, width) ==
  <<getTargetValue(cls, offsetX, width), offsetY>>

\* TrackableValue.reset(): the value reverts to its configured default
TrackableReset(value) == DefaultTarget

\* variant: reset() leaves the hover state alone
reset_keepsHover(value, hover) == [target |-> TrackableReset(value), hover |-> hover]

\* reset(): the hover state is dropped and the target is reset
reset(value, hover) == [target |-> TrackableReset(value), hover |-> None]

\* variant: the buffer is left as it is when the histogram is not visible
BufferAfterDraw_untouched(data, isVisible) == data

\* if (!histogram.visibility.visible) histogramData.fill(0): the shared
\* buffer as updateView leaves it
BufferAfterDraw(data, isVisible) == IF isVisible THEN data ELSE ZeroData

\* what updateView reads: the target, the hover state, the buffer (after
\* the fill above), the surface width and the origin exponent
ViewOf(value, hover, data, width, origin) ==
  [target |-> value, hover |-> hover, data |-> data,
   width |-> width, origin |-> origin]

\* variant: the two rate-limited functions are not registered as cancellable
Registered_withoutCancellables == AllHandlers

\* what the constructor and the field initialisers register for cleanup:
\* registerCancellable for the two rate-limited functions, registerDisposer
\* or registerEventListener for every handler, and the observer's disconnect
Registered ==
  AllHandlers \cup {"throttledUpdateView.cancel", "debouncedUpdateView.cancel"}

\* dispose() runs every registered cleanup action: the handlers that stay
\* attached and the timers that keep running
disposed(ls, s) ==
  [listeners |-> ls \ Registered,
   sched |->
     [thTimer |-> s.thTimer /\ "throttledUpdateView.cancel" \notin Registered,
      thPending |-> s.thPending /\ "throttledUpdateView.cancel" \notin Registered,
      debTimer |-> s.debTimer /\ "debouncedUpdateView.cancel" \notin Registered]]

-----------------------------------------------------------------------------
(* The draw pass, updateView(): what it computes from the state it reads.  *)

\* this.unitOfTarget once construction has finished
unitOfTarget(cls) ==
  IF cls = "VolumeRenderingRenderScaleWidget" THEN "samples" ELSE "px"

\* Math.log2(x) | 0: the logarithm truncated toward zero
RatTrunc(a) == IF a[1] >= 0 THEN a[1] \div a[2] ELSE -((-a[1]) \div a[2])

\* formatPixelNumber(x), x given by its logarithm.  form "p" stands for
\* `${coeff}p${exponent}`, coeff held by its logarithm (coeff is in [1, 2)
\* iff 0 <= lg(coeff) < 1); form "integer" stands for Math.round(x) + ''.
formatPixelNumber(x) ==
  IF RatLt(x, Whole(0)) \/ RatLt(Whole(10), x)
    THEN LET exponent == RatTrunc(x) IN
         [form |-> "p", coeff |-> RatSub(x, Whole(exponent)), exponent |-> exponent]
    ELSE [form |-> "integer", coeff |-> x, exponent |-> 0]

\* String(k) of a positive integer key: its decimal digits
RECURSIVE NumberToString(_)
NumberToString(k) ==
  IF k < 10 THEN <<k>> ELSE Append(NumberToString(k \div 10), k % 10)

\* s sorts before t by UTF-16 code units (a proper prefix sorts first)
RECURSIVE StringLess(_, _)
StringLess(s, t) ==
  IF t = <<>> THEN FALSE
  ELSE IF s = <<>> THEN TRUE
  ELSE IF s[1] # t[1] THEN s[1] < t[1]
  ELSE StringLess(Tail(s), Tail(t))

\* Array.prototype.sort() without a comparator: the elements ordered by
\* their string forms
RECURSIVE ArraySort(_)
ArraySort(S) ==
  IF S = {} THEN <<>>
  ELSE LET first == CHOOSE k \in S :
                      \A j \in S \ {k} : StringLess(NumberToString(k), NumberToString(j))
       IN  <<first>> \o ArraySort(S \ {first})

\* Array.from(spatialScales.keys()), sorted
sortedSpatialScales(scales) == ArraySort(DOMAIN scales)

\* variant: the first loop leaves the not-present counts out
RECURSIVE BinCount_presentOnly(_, _, _)
BinCount_presentOnly(data, rows, bin) ==
  IF rows = 0 THEN 0
  ELSE BinCount_presentOnly(data, rows - 1, bin)
         + data[(rows - 1) * numRenderScaleHistogramBins * 2 + bin]

\* the first loop: count of one bin, summed over rows 0 .. rows - 1
RECURSIVE BinCount(_, _, _)
BinCount(data, rows, bin) ==
  IF rows = 0 THEN 0
  ELSE LET index == (rows - 1) * numRenderScaleHistogramBins * 2 + bin IN
       BinCount(data, rows - 1, bin)
         + data[index] + data[index + numRenderScaleHistogramBins]

\* maxCount = max(1, the largest bin count)
maxCount(data, rows) ==
  LET counts == {1} \cup {BinCount(data, rows, bin) :
                            bin \in 0 .. numRenderScaleHistogramBins - 1}
  IN  CHOOSE c \in counts : \A other \in counts : other <= c

\* the sum of the cells  row * bins * 2 + half * bins + bin  over rows and bins
RECURSIVE CellSum(_, _, _)
CellSum(data, cells, half) ==
  IF cells = 0 THEN 0
  ELSE LET row == (cells - 1) \div numRenderScaleHistogramBins
           bin == (cells - 1) % numRenderScaleHistogramBins
       IN  CellSum(data, cells - 1, half)
             + data[row * numRenderScaleHistogramBins * 2
                    + half * numRenderScaleHistogramBins + bin]

totalPresent(data, rows) == CellSum(data, rows * numRenderScaleHistogramBins, 0)

\* totalNotPresent, after  totalNotPresent -= histogram.fakeChunkCount
totalNotPresent(data, rows, fake) ==
  CellSum(data, rows * numRenderScaleHistogramBins, 1) - fake

RECURSIVE Pow(_, _)
Pow(b, e) == IF e = 0 THEN 1 ELSE b * Pow(b, e - 1)

\* Math.round(countToCanvasY(count)), with
\*   countToCanvasY(count) = height - Math.log(1 + count) * yScale,
\*   yScale = height / Math.log(1 + maxCount):
\* the largest k <= height + 1/2 - height * log(1 + count) / log(1 + maxCount),
\* that is the largest k with
\*   (1 + count) ** (2 * height) <= (1 + maxCount) ** (2 * height + 1 - 2 * k)
RECURSIVE RoundedYFrom(_, _, _, _)
RoundedYFrom(k, count, mc, height) ==
  IF Pow(1 + count, 2 * height) <= Pow(1 + mc, 2 * height + 1 - 2 * k)
    THEN k
    ELSE RoundedYFrom(k - 1, count, mc, height)

roundedCountToCanvasY(count, mc, height) == RoundedYFrom(height, count, mc, height)

\* binToCanvasX(bin) = bin * width / numRenderScaleHistogramBins
binToCanvasX(bin, width) ==
  RatMul(bin, Rat(width, numRenderScaleHistogramBins))

\* the hover loop: walks sortedSpatialScales from its last element down,
\* skips a series whose count in bin i is zero, and stops at the first
\* series whose band [yEnd, yStart] holds hoverY
RECURSIVE PickFrom(_, _, _, _, _, _, _, _, _)
PickFrom(spatialScaleIndex, sum, sorted, scales, data, i, hoverY, mc, height) ==
  IF spatialScaleIndex < 1 THEN None
  ELSE LET spatialScale == sorted[spatialScaleIndex]
           row == scales[spatialScale]
           index == 2 * row * numRenderScaleHistogramBins + i
           count == data[index] + data[index + numRenderScaleHistogramBins]
           yStart == roundedCountToCanvasY(sum, mc, height)
           yEnd == roundedCountToCanvasY(sum + count, mc, height)
       IN  IF count = 0
             THEN PickFrom(spatialScaleIndex - 1, sum, sorted, scales, data, i,
                           hoverY, mc, height)
           ELSE IF yEnd <= hoverY /\ hoverY <= yStart
             THEN <<spatialScale>>
           ELSE PickFrom(spatialScaleIndex - 1, sum + count, sorted, scales, data,
                         i, hoverY, mc, height)

\* the bin index the hover loop derives from the hover value
hoverBin(hover, origin) == RatFloor(getRenderScaleHistogramOffset(hover[1], origin))

\* variant: the hover loop walks the series from the first element up
hoverSpatialScale_ascending(view, scales, height) ==
  IF view.hover = None THEN None
  ELSE LET i == hoverBin(view.hover, view.origin)
           sorted == sortedSpatialScales(scales)
           reversed == [j \in 1 .. Len(sorted) |-> sorted[Len(sorted) + 1 - j]]
       IN  IF i >= 0 /\ i < numRenderScaleHistogramBins
             THEN PickFrom(Len(sorted), 0, reversed, scales, view.data, i,
                           view.hover[2], maxCount(view.data, Len(sorted)), height)
             ELSE None

\* hoverSpatialScale: None (undefined) or <<the hovered key>>
hoverSpatialScale(view, scales, height) ==
  IF view.hover = None THEN None
  ELSE LET i == hoverBin(view.hover, view.origin)
           sorted == sortedSpatialScales(scales)
       IN  IF i >= 0 /\ i < numRenderScaleHistogramBins
             THEN PickFrom(Len(sorted), 0, sorted, scales, view.data, i,
                           view.hover[2], maxCount(view.data, Len(sorted)), height)
             ELSE None

\* spatialScaleColors: a colour is given by the key its hue is computed from,
\* the saturation (0.5 for the hovered series, else 1) and the colour value
\* (1 for present, 0.5 for not present)
spatialScaleColor(spatialScale, hovered, present) ==
  [hue |-> spatialScale,
   saturation |-> IF <<spatialScale>> = hovered THEN "0.5" ELSE "1",
   value |-> IF present THEN "1" ELSE "0.5"]

\* the stack loop for bin i: two fillRect calls per series with a non-zero
\* count, the not-present part first
RECURSIVE StackFrom(_, _, _, _, _, _, _, _, _, _)
StackFrom(spatialScaleIndex, sum, sorted, scales, data, i, hovered, mc, width, height) ==
  IF spatialScaleIndex < 1 THEN <<>>
  ELSE LET spatialScale == sorted[spatialScaleIndex]
           row == scales[spatialScale]
           index == row * numRenderScaleHistogramBins * 2 + i
           presentCount == data[index]
           notPresentCount == data[index + numRenderScaleHistogramBins]
           count == presentCount + notPresentCount
           xStart == RatRound(binToCanvasX(Whole(i), width))
           xEnd == RatRound(binToCanvasX(Whole(i + 1), width))
           yStart == roundedCountToCanvasY(sum, mc, height)
           yEnd == roundedCountToCanvasY(sum + count, mc, height)
           ySplit == Rat(presentCount * yEnd + notPresentCount * yStart, count)
       IN  IF count = 0
             THEN StackFrom(spatialScaleIndex - 1, sum, sorted, scales, data, i,
                            hovered, mc, width, height)
             ELSE <<[x |-> xStart, y |-> Whole(yEnd), w |-> xEnd - xStart,
                     h |-> RatSub(ySplit, Whole(yEnd)),
                     fillStyle |-> spatialScaleColor(spatialScale, hovered, FALSE)],
                    [x |-> xStart, y |-> ySplit, w |-> xEnd - xStart,
                     h |-> RatSub(Whole(yStart), ySplit),
                     fillStyle |-> spatialScaleColor(spatialScale, hovered, TRUE)]>>
                  \o StackFrom(spatialScaleIndex - 1, sum + count, sorted, scales,
                               data, i, hovered, mc, width, height)

\* the rectangles of the bins i .. bins - 1, in the order they are filled
RECURSIVE StackRects(_, _, _, _, _, _)
StackRects(i, view, scales, hovered, mc, height) ==
  IF i >= numRenderScaleHistogramBins THEN <<>>
  ELSE LET sorted == sortedSpatialScales(scales) IN
       StackFrom(Len(sorted), 0, sorted, scales, view.data, i, hovered, mc,
                 view.width, height)
         \o StackRects(i + 1, view, scales, hovered, mc, height)

\* a one-pixel marker at the offset of a value
Marker(value, view, height, fillStyle) ==
  [x |-> RatFloor(binToCanvasX(getRenderScaleHistogramOffset(value, view.origin),
                               view.width)),
   y |-> 0, w |-> 1, h |-> height, fillStyle |-> fillStyle]

\* the second totals loop: the cells baseIndex .. baseIndex + bins - 1
RECURSIVE RowSum(_, _, _)
RowSum(data, baseIndex, bins) ==
  IF bins = 0 THEN 0
  ELSE RowSum(data, baseIndex, bins - 1) + data[baseIndex + bins - 1]

\* legendChunks: `${totalPresent}/${totalPresent + totalNotPresent}`, summed
\* over all rows, or over the row of the hovered series
legendChunks(view, scales, hovered, fake) ==
  IF hovered = None
    THEN LET rows == Cardinality(DOMAIN scales) IN
         <<totalPresent(view.data, rows),
           totalPresent(view.data, rows) + totalNotPresent(view.data, rows, fake)>>
    ELSE LET baseIndex == 2 * scales[hovered[1]] * numRenderScaleHistogramBins
             present == RowSum(view.data, baseIndex, numRenderScaleHistogramBins)
             notPresent == RowSum(view.data, baseIndex + numRenderScaleHistogramBins,
                                  numRenderScaleHistogramBins)
         IN  <<present, present + notPresent>>

\* what one call of updateView() paints and writes, from the state it reads:
\* the fillRect calls of the stack loop, the two markers, the three legends
updateView(view, scales, height, fake, unit) ==
  LET hovered == hoverSpatialScale(view, scales, height)
      mc == maxCount(view.data, Cardinality(DOMAIN scales))
  IN  [bars |-> StackRects(0, view, scales, hovered, mc, height),
       markers |-> <<Marker(view.target, view, height, "#fff")>>
                     \o (IF view.hover = None THEN <<>>
                         ELSE <<Marker(view.hover[1], view, height, "#888")>>),
       legendRenderScale |->
         <<formatPixelNumber(IF view.hover = None THEN view.target
                                                  ELSE view.hover[1]), unit>>,
       legendChunks |-> legendChunks(view, scales, hovered, fake),
       legendSpatialScale |-> hovered]

-----------------------------------------------------------------------------
(* Observation variables read by the properties, not program state.        *)

\* the handler that ran, its event, and what it found when it started
Event(op, deltaY, offsetX, wheelPrevented, actionPrevented) ==
  [op |-> op, deltaY |-> deltaY, offsetX |-> offsetX,
   wheelPrevented |-> wheelPrevented, actionPrevented |-> actionPrevented,
   before |-> target, hovering |-> hoverTarget # None,
   pending |-> sched.debTimer \/ sched.thTimer]

Min(a, b) == IF a < b THEN a ELSE b

\* a turn that reached a redraw handler restarts the count of draw passes
\* Draw passes are counted from a turn that found no draw pending and
\* reached a redraw handler, until the next turn that reaches one.
Untracked == [tracked |-> FALSE, data |-> FALSE, draws |-> 0]

TurnAfter(before, reached, dataChanged) ==
  IF reached
    THEN IF DrawPending(before)
           THEN Untracked
           ELSE [tracked |-> TRUE, data |-> dataChanged, draws |-> 0]
    ELSE turn

-----------------------------------------------------------------------------
(* The state after construction.  The constructor ends with a draw pass;   *)
(* it runs inside the base constructor, before the fields of a derived     *)
(* class are initialised.                                                  *)

Init ==
  /\ widgetClass \in Classes
  /\ target = DefaultTarget
  /\ hoverTarget = None
  /\ histogramData \in ProducerFrames
  /\ visible = TRUE
  /\ offsetWidth \in Widths
  /\ canvasWidth = offsetWidth
  /\ sched = Idle
  /\ listeners = AllHandlers
  /\ drawn = <<ViewOf(target, hoverTarget, histogramData, offsetWidth,
                      renderScaleHistogramOrigin)>>
  /\ spatialScales = FirstRegistry
  /\ fakeChunkCount = 0
  /\ offsetHeight = CanvasHeight
  /\ painted = <<updateView(drawn[1], spatialScales, offsetHeight, fakeChunkCount,
                            unitOfTarget("RenderScaleWidget"))>>
  /\ lastEvent = Event("construct", 0, 0, FALSE, FALSE)
  /\ turn = Untracked
  /\ upRun = 0

-----------------------------------------------------------------------------
(* Pointer and wheel gestures on the canvas.                               *)

PointerMove(x, y) ==
  /\ "pointermove" \in listeners
  /\ x < offsetWidth
  /\ hoverTarget' = pointermoveListener(widgetClass, x, y, canvasWidth)
  /\ sched' = Dispatch("hoverTarget.changed", listeners, sched, TRUE)
  /\ turn' = TurnAfter(sched, "hoverTarget.changed" \in listeners, FALSE)
  /\ lastEvent' = Event("pointermove", 0, x, FALSE, FALSE)
  /\ upRun' = 0
  /\ UNCHANGED <<widgetClass, target, histogramData, visible, offsetWidth,
                 canvasWidth, listeners>>
  /\ drawn' = None
  /\ painted' = None
  /\ UNCHANGED <<spatialScales, fakeChunkCount, offsetHeight>>

PointerLeave ==
  /\ "pointerleave" \in listeners
  /\ hoverTarget' = None
  /\ sched' = Dispatch("hoverTarget.changed", listeners, sched, hoverTarget # None)
  /\ turn' = TurnAfter(sched,
                       hoverTarget # None /\ "hoverTarget.changed" \in listeners, FALSE)
  /\ lastEvent' = Event("pointerleave", 0, 0, FALSE, FALSE)
  /\ upRun' = 0
  /\ UNCHANGED <<widgetClass, target, histogramData, visible, offsetWidth,
                 canvasWidth, listeners>>
  /\ drawn' = None
  /\ painted' = None
  /\ UNCHANGED <<spatialScales, fakeChunkCount, offsetHeight>>

Set(x) ==
  /\ "set" \in listeners
  /\ x < offsetWidth
  /\ LET r == setListener(widgetClass, target, hoverTarget, x, canvasWidth) IN
       /\ target' = r.target
       /\ hoverTarget' = r.hover
       /\ sched' = Dispatch("hoverTarget.changed", listeners,
                     Dispatch("target.changed", listeners, sched, r.target # target),
                     r.hover # hoverTarget)
       /\ turn' = TurnAfter(sched,
                    \/ r.target # target /\ "target.changed" \in listeners
                    \/ r.hover # hoverTarget /\ "hoverTarget.changed" \in listeners,
                    FALSE)
  /\ lastEvent' = Event("set", 0, x, FALSE, FALSE)
  /\ upRun' = 0
  /\ UNCHANGED <<widgetClass, histogramData, visible, offsetWidth, canvasWidth,
                 listeners>>
  /\ drawn' = None
  /\ painted' = None
  /\ UNCHANGED <<spatialScales, fakeChunkCount, offsetHeight>>

\* via = "canvas": the widget's own 'adjust-via-wheel' listener;
\* via = "tool": the binding made by activateTool, which also calls
\* stopPropagation() and preventDefault() on the action event
AdjustViaWheel(via, d) ==
  /\ via = "canvas" => "adjust-via-wheel" \in listeners
  /\ LET r == adjustViaWheel(widgetClass, target, hoverTarget, d) IN
       /\ target' = r.target
       /\ hoverTarget' = r.hover
       /\ sched' = Dispatch("target.changed", listeners,
                     Dispatch("hoverTarget.changed", listeners, sched,
                              r.hover # hoverTarget),
                     r.target # target)
       /\ turn' = TurnAfter(sched,
                    \/ r.target # target /\ "target.changed" \in listeners
                    \/ r.hover # hoverTarget /\ "hoverTarget.changed" \in listeners,
                    FALSE)
       /\ lastEvent' = Event(IF via = "tool" THEN "tool:adjust-via-wheel"
                                             ELSE "adjust-via-wheel",
                             d, 0, r.prevented, via = "tool")
       /\ upRun' = IF widgetClass = "RenderScaleWidget" /\ r.prevented
                      /\ Sign(getWheelMoveValue(widgetClass, d)) = 1
                     THEN IF upRun > 0 THEN Min(upRun + 1, UpRunCap)
                          ELSE IF target = Whole(2) THEN 1 ELSE 0
                     ELSE 0
  /\ UNCHANGED <<widgetClass, histogramData, visible, offsetWidth, canvasWidth,
                 listeners>>
  /\ drawn' = None
  /\ painted' = None
  /\ UNCHANGED <<spatialScales, fakeChunkCount, offsetHeight>>

Reset(via) ==
  /\ via = "canvas" => "reset" \in listeners
  /\ LET r == reset(target, hoverTarget) IN
       /\ target' = r.target
       /\ hoverTarget' = r.hover
       /\ sched' = Dispatch("target.changed", listeners,
                     Dispatch("hoverTarget.changed", listeners, sched,
                              r.hover # hoverTarget),
                     r.target # target)
       /\ turn' = TurnAfter(sched,
                    \/ r.target # target /\ "target.changed" \in listeners
                    \/ r.hover # hoverTarget /\ "hoverTarget.changed" \in listeners,
                    FALSE)
  /\ lastEvent' = Event(IF via = "tool" THEN "tool:reset" ELSE "reset",
                        0, 0, FALSE, TRUE)
  /\ upRun' = 0
  /\ UNCHANGED <<widgetClass, histogramData, visible, offsetWidth, canvasWidth,
                 listeners>>
  /\ drawn' = None
  /\ painted' = None
  /\ UNCHANGED <<spatialScales, fakeChunkCount, offsetHeight>>

-----------------------------------------------------------------------------
(* The collaborators: the owner of the target, the producer of the         *)
(* histogram, the visibility flag and the layout.                          *)

CallerSetTarget(v) ==
  /\ v # target
  /\ target' = v
  /\ sched' = Dispatch("target.changed", listeners, sched, TRUE)
  /\ turn' = TurnAfter(sched, "target.changed" \in listeners, FALSE)
  /\ lastEvent' = Event("target.assign", 0, 0, FALSE, FALSE)
  /\ upRun' = 0
  /\ UNCHANGED <<widgetClass, hoverTarget, histogramData, visible, offsetWidth,
                 canvasWidth, listeners>>
  /\ drawn' = None
  /\ painted' = None
  /\ UNCHANGED <<spatialScales, fakeChunkCount, offsetHeight>>

RECURSIVE Repeat(_, _, _)
Repeat(n, ls, s) ==
  IF n = 0 THEN s ELSE Repeat(n - 1, ls, Dispatch("histogram.changed", ls, s, TRUE))

\* the producer writes the buffer and raises histogram.changed n times
\* before the turn ends
HistogramChanged(frame, n) ==
  /\ histogramData' = frame
  /\ sched' = Repeat(n, listeners, sched)
  /\ turn' = TurnAfter(sched, "histogram.changed" \in listeners, TRUE)
  /\ lastEvent' = Event("histogram.changed", 0, 0, FALSE, FALSE)
  /\ upRun' = 0
  /\ UNCHANGED <<widgetClass, target, hoverTarget, visible, offsetWidth,
                 canvasWidth, listeners>>
  /\ drawn' = None
  /\ painted' = None
  /\ UNCHANGED <<spatialScales, fakeChunkCount, offsetHeight>>

VisibilityChanged ==
  /\ visible' = ~visible
  /\ sched' = Dispatch("visibility.changed", listeners, sched, TRUE)
  /\ turn' = TurnAfter(sched, "visibility.changed" \in listeners, FALSE)
  /\ lastEvent' = Event("visibility.changed", 0, 0, FALSE, FALSE)
  /\ upRun' = 0
  /\ UNCHANGED <<widgetClass, target, hoverTarget, histogramData, offsetWidth,
                 canvasWidth, listeners>>
  /\ drawn' = None
  /\ painted' = None
  /\ UNCHANGED <<spatialScales, fakeChunkCount, offsetHeight>>

\* the layout gives the canvas another width; the ResizeObserver reports it
Resize(w) ==
  /\ w # offsetWidth
  /\ offsetWidth' = w
  /\ sched' = Dispatch("resize", listeners, sched, TRUE)
  /\ turn' = TurnAfter(sched, "resize" \in listeners, FALSE)
  /\ lastEvent' = Event("resize", 0, 0, FALSE, FALSE)
  /\ upRun' = 0
  /\ UNCHANGED <<widgetClass, target, hoverTarget, histogramData, visible,
                 canvasWidth, listeners>>
  /\ drawn' = None
  /\ painted' = None
  /\ UNCHANGED <<spatialScales, fakeChunkCount, offsetHeight>>

-----------------------------------------------------------------------------
(* Timers and teardown.                                                    *)

\* the interval timer of throttledUpdateView expires: the trailing call is
\* made if one is owed, and the next call is again a leading one
ThrottleTimerExpired ==
  /\ sched.thTimer
  /\ sched' = IF sched.thPending
                THEN debouncedUpdateView([sched EXCEPT !.thTimer = FALSE,
                                                       !.thPending = FALSE])
                ELSE [sched EXCEPT !.thTimer = FALSE]
  /\ lastEvent' = Event("throttle.timer", 0, 0, FALSE, FALSE)
  /\ UNCHANGED <<widgetClass, target, hoverTarget, histogramData, visible,
                 offsetWidth, canvasWidth, listeners, turn, upRun>>
  /\ drawn' = None
  /\ painted' = None
  /\ UNCHANGED <<spatialScales, fakeChunkCount, offsetHeight>>

\* the zero-delay timer of debouncedUpdateView expires: updateView() runs
UpdateView ==
  /\ sched.debTimer
  /\ sched' = [sched EXCEPT !.debTimer = FALSE]
  /\ canvasWidth' = offsetWidth
  /\ histogramData' = BufferAfterDraw(histogramData, visible)
  /\ drawn' = <<ViewOf(target, hoverTarget, histogramData', offsetWidth,
                       logScaleOrigin(widgetClass))>>
  /\ painted' = <<updateView(drawn'[1], spatialScales, offsetHeight, fakeChunkCount,
                             unitOfTarget(widgetClass))>>
  /\ UNCHANGED <<spatialScales, fakeChunkCount, offsetHeight>>
  /\ turn' = IF turn.tracked THEN [turn EXCEPT !.draws = Min(turn.draws + 1, 3)]
                             ELSE turn
  /\ lastEvent' = Event("updateView", 0, 0, FALSE, FALSE)
  /\ UNCHANGED <<widgetClass, target, hoverTarget, visible, offsetWidth,
                 listeners, upRun>>

Dispose ==
  /\ listeners = AllHandlers
  /\ LET r == disposed(listeners, sched) IN
       /\ listeners' = r.listeners
       /\ sched' = r.sched
  /\ lastEvent' = Event("dispose", 0, 0, FALSE, FALSE)
  /\ upRun' = 0
  /\ UNCHANGED <<widgetClass, target, hoverTarget, histogramData, visible,
                 offsetWidth, canvasWidth, turn>>
  /\ drawn' = None
  /\ painted' = None
  /\ UNCHANGED <<spatialScales, fakeChunkCount, offsetHeight>>

-----------------------------------------------------------------------------
(* The control and its gestures: every handler that reads or writes the    *)
(* target and the hover state, the draw pass and teardown, for both        *)
(* classes.  The producer and the visibility flag stay quiet.              *)

Next ==
  \/ \E x \in PointerXs, y \in PointerYs : PointerMove(x, y)
  \/ PointerLeave
  \/ \E x \in PointerXs : Set(x)
  \/ \E via \in {"canvas", "tool"}, d \in WheelDeltas : AdjustViaWheel(via, d)
  \/ \E via \in {"canvas", "tool"} : Reset(via)
  \/ \E v \in CallerTargets : CallerSetTarget(v)
  \/ \E w \in Widths : Resize(w)
  \/ UpdateView
  \/ Dispose

Spec == Init /\ [][Next]_vars

-----------------------------------------------------------------------------
(* Redraw scheduling: the same handlers together with the producer, the    *)
(* visibility flag and the interval timer, for the base class and a        *)
(* narrower choice of gestures.                                            *)

RedrawInit == Init /\ widgetClass = "RenderScaleWidget"

RedrawNext ==
  \/ \E x \in RedrawXs, y \in PointerYs : PointerMove(x, y)
  \/ PointerLeave
  \/ \E x \in RedrawXs : Set(x)
  \/ \E via \in {"canvas", "tool"}, d \in RedrawDeltas : AdjustViaWheel(via, d)
  \/ \E via \in {"canvas", "tool"} : Reset(via)
  \/ \E v \in RedrawTargets : CallerSetTarget(v)
  \/ \E f \in ProducerFrames, n \in 1 .. MaxBurst : HistogramChanged(f, n)
  \/ VisibilityChanged
  \/ \E w \in Widths : Resize(w)
  \/ ThrottleTimerExpired
  \/ UpdateView
  \/ Dispose

RedrawSpec == RedrawInit /\ [][RedrawNext]_vars

\* the zero-delay timer stops with the interval timer untouched: the step
\* of UpdateView (or a cancellation that finds no other timer running)
DebounceTimerFires ==
  sched.debTimer /\ sched' = [sched EXCEPT !.debTimer = FALSE]

\* timers that are running expire
FairRedrawSpec ==
  RedrawSpec /\ WF_vars(ThrottleTimerExpired) /\ WF_sched(DebounceTimerFires)

-----------------------------------------------------------------------------
(* The draw pass: the base class over several registries, frames, widths   *)
(* and fake-chunk counts, with the pointer moving over the chart, the      *)
(* owner assigning the target and the visibility flag switching.           *)

DrawInit ==
  /\ widgetClass = "RenderScaleWidget"
  /\ target = DefaultTarget
  /\ hoverTarget = None
  /\ histogramData \in DrawFrames
  /\ spatialScales \in Registries
  /\ fakeChunkCount \in FakeCounts
  /\ visible = TRUE
  /\ offsetWidth \in DrawWidths
  /\ offsetHeight = CanvasHeight
  /\ canvasWidth = offsetWidth
  /\ sched = Idle
  /\ listeners = AllHandlers
  /\ drawn = <<ViewOf(target, hoverTarget, histogramData, offsetWidth,
                      renderScaleHistogramOrigin)>>
  /\ painted = <<updateView(drawn[1], spatialScales, offsetHeight, fakeChunkCount,
                            unitOfTarget("RenderScaleWidget"))>>
  /\ lastEvent = Event("construct", 0, 0, FALSE, FALSE)
  /\ turn = Untracked
  /\ upRun = 0

DrawNext ==
  \/ \E x \in DrawXs, y \in DrawYs : PointerMove(x, y)
  \/ PointerLeave
  \/ \E v \in DrawTargets : CallerSetTarget(v)
  \/ VisibilityChanged
  \/ UpdateView

DrawSpec == DrawInit /\ [][DrawNext]_vars

-----------------------------------------------------------------------------
(* Properties of the value controller, checked under Spec.                 *)

WheelOps == {"adjust-via-wheel", "tool:adjust-via-wheel"}
ResetOps == {"reset", "tool:reset"}

\* the wheel interval as the specification states it:
\* [2 ** origin, 2 ** (logScaleMax - 1)], logScaleMax = round(origin + bins * binWidth)
StatedLow(cls) == Whole(logScaleOrigin(cls))
StatedHigh(cls) ==
  Whole(RatRound(RatAdd(Whole(logScaleOrigin(cls)),
                        RatMul(Whole(numRenderScaleHistogramBins),
                               renderScaleHistogramBinSize))) - 1)
InWheelInterval(cls, v) == RatLe(StatedLow(cls), v) /\ RatLe(v, StatedHigh(cls))

\* the last handler was a wheel action whose delta, as the class reads it, is not zero
WheelActed ==
  /\ lastEvent.op \in WheelOps
  /\ getWheelMoveValue(widgetClass, lastEvent.deltaY) # 0

WheelIgnored ==
  /\ lastEvent.op \in WheelOps
  /\ getWheelMoveValue(widgetClass, lastEvent.deltaY) = 0

\* C1: after a wheel action with a non-zero delta the target lies in
\* [2 ** origin, 2 ** (logScaleMax - 1)], whatever the target was before.
C1_WheelClampsIntoInterval == WheelActed => InWheelInterval(widgetClass, target)

\* a wheel action has brought back a target that was outside the interval
C1_Witness ==
  /\ WheelActed
  /\ ~InWheelInterval(widgetClass, lastEvent.before)
  /\ InWheelInterval(widgetClass, target)

\* C2: a wheel action moves the target by exactly one power of two while the
\* result stays inside the interval and leaves it at the bound it has reached;
\* for the base class (interval [2**0, 2**9]) k increases in a row from 2**2
\* give 2**3, 2**4, ... and 2**9 from the seventh on, the twentieth included.
C2_DoublingThenSaturation ==
  /\ WheelActed =>
       LET s == Sign(getWheelMoveValue(widgetClass, lastEvent.deltaY))
           moved == RatAdd(lastEvent.before, Whole(s))
       IN  /\ InWheelInterval(widgetClass, moved) => target = moved
           /\ (s = 1 /\ lastEvent.before = StatedHigh(widgetClass))
                => target = StatedHigh(widgetClass)
           /\ (s = -1 /\ lastEvent.before = StatedLow(widgetClass))
                => target = StatedLow(widgetClass)
  /\ upRun = 1 => target = Whole(3)
  /\ upRun = 2 => target = Whole(4)
  /\ upRun > 0 => target = Whole(Min(2 + upRun, 9))
  /\ upRun >= 20 => target = Whole(9)

\* twenty increases in a row from 2**2 have been made and the target is 2**9
C2_Witness == upRun = 20 /\ target = Whole(9) /\ WheelActed

\* C3 as stated: pointer-leave, every wheel action, every click and reset
\* leave the hover state absent.
C3_ClearedByEveryAction ==
  lastEvent.op \in ({"pointerleave", "set"} \cup WheelOps \cup ResetOps)
    => hoverTarget = None

\* C3 amended: pointer-leave, a wheel action with a non-zero delta and reset
\* leave the hover state absent.
C3_ClearedByLeaveWheelReset ==
  (lastEvent.op = "pointerleave" \/ lastEvent.op \in ResetOps \/ WheelActed)
    => hoverTarget = None

\* a wheel action found the pointer hovering and cleared the hover state
C3_Witness == WheelActed /\ lastEvent.hovering /\ hoverTarget = None

\* C4: a wheel action with a zero delta changes neither the target nor the
\* hover state nor the pending draws, and does not call preventDefault() on
\* the wheel event.
C4_ZeroDeltaIsNoOp ==
  [][ (lastEvent'.op \in WheelOps
         /\ getWheelMoveValue(widgetClass, lastEvent'.deltaY) = 0)
      => /\ target' = target
         /\ hoverTarget' = hoverTarget
         /\ sched' = sched
         /\ ~lastEvent'.wheelPrevented ]_vars

\* a zero-delta wheel action has run while the pointer hovered off the default
C4_Witness ==
  /\ WheelIgnored
  /\ hoverTarget # None
  /\ target # DefaultTarget
  /\ ~lastEvent.wheelPrevented

\* C9: after reset the target is its configured default and the hover state
\* is absent.
C9_ResetRestoresDefault ==
  lastEvent.op \in ResetOps => (target = DefaultTarget /\ hoverTarget = None)

\* reset has run while hovering with the target outside the wheel interval
C9_Witness ==
  /\ lastEvent.op \in ResetOps
  /\ lastEvent.hovering
  /\ ~InWheelInterval(widgetClass, lastEvent.before)
  /\ target = DefaultTarget

\* the value of pixel x on a chart of width w: valueOf(x / w * bins, origin)
ClickedValue(cls, x, w) ==
  RatAdd(Whole(logScaleOrigin(cls)),
         RatMul(RatMul(Rat(x, w), Whole(numRenderScaleHistogramBins)),
                renderScaleHistogramBinSize))

\* C10: a click at x assigns valueOf(x / W * bins, origin) unclamped, the value
\* a pointer-move at x probes; a wheel action that finds the target outside
\* the wheel interval brings it back inside.
C10_ClickAssignsProbedValue ==
  /\ lastEvent.op = "set" =>
       /\ target = ClickedValue(widgetClass, lastEvent.offsetX, canvasWidth)
       /\ target = pointermoveListener(widgetClass, lastEvent.offsetX, 0,
                                       canvasWidth)[1]
  /\ (WheelActed /\ ~InWheelInterval(widgetClass, lastEvent.before))
       => InWheelInterval(widgetClass, target)

\* a click inside the chart has set the target above 2 ** (logScaleMax - 1)
C10_Witness ==
  /\ lastEvent.op = "set"
  /\ lastEvent.offsetX < canvasWidth
  /\ RatLt(StatedHigh(widgetClass), target)

-----------------------------------------------------------------------------
(* Properties of redraw scheduling and teardown, checked under RedrawSpec  *)
(* and FairRedrawSpec.                                                     *)

\* the callbacks the control registered: its listeners, its timers, its draw pass
ControlCallbacks ==
  {"pointermove", "pointerleave", "set", "adjust-via-wheel", "reset",
   "throttle.timer", "updateView"}

\* C5: once the control is disposed no timer of it is left running, and no
\* step after that runs a listener, a timer callback or a draw pass of the
\* control, whatever the collaborators do afterwards.
C5_NothingRunsAfterDisposal ==
  /\ [](listeners = {} => sched = Idle)
  /\ [][ listeners = {}
         => /\ lastEvent'.op \notin ControlCallbacks
            /\ drawn' = None
            /\ sched' = Idle ]_vars

\* the control was disposed with a draw owed, and a data change arrived later
C5_Witness ==
  /\ listeners = {}
  /\ lastEvent.op = "histogram.changed"
  /\ turn.tracked /\ turn.draws = 0

\* the steps that raise a redraw trigger
TriggerData == lastEvent'.op = "histogram.changed"
TriggerHover == hoverTarget' # hoverTarget \/ lastEvent'.op = "pointermove"
TriggerTarget == target' # target
TriggerVisibility == visible' # visible
TriggerResize == offsetWidth' # offsetWidth

\* the current state, as a draw pass reads it
CurrentView ==
  [target |-> target, hover |-> hoverTarget, data |-> histogramData,
   width |-> canvasWidth, origin |-> logScaleOrigin(widgetClass)]

\* C6 as stated: the triggers of one turn cause a single draw pass.
C6_SingleDrawPerTurn == turn.tracked => turn.draws <= 1

\* C6 amended: every trigger on a live control leaves a draw owed, an owed
\* draw runs, the draw pass reads the state as it is when it runs, and the
\* triggers of one turn cause one draw pass, or at most two when the turn
\* raised a data change.
C6_LatestStateIsDrawn ==
  /\ [][ (listeners = AllHandlers
            /\ (TriggerData \/ TriggerHover \/ TriggerTarget
                  \/ TriggerVisibility \/ TriggerResize))
         => DrawPending(sched') ]_vars
  /\ DrawPending(sched) ~> (lastEvent.op = "updateView" \/ listeners = {})
  /\ [][ lastEvent'.op = "updateView"
         => canvasWidth' = offsetWidth /\ drawn' = <<CurrentView'>> ]_vars
  /\ [](turn.tracked => turn.draws <= (IF turn.data THEN 2 ELSE 1))

\* a turn that raised data changes has been followed by two draw passes
C6_Witness == turn.tracked /\ turn.data /\ turn.draws = 2 /\ lastEvent.op = "updateView"

\* a trigger handled by the interval limiter: held back while the interval
\* runs, passed on at once (opening an interval) otherwise
ThroughLimiter ==
  IF sched.thTimer
    THEN sched'.thTimer /\ sched'.thPending /\ sched'.debTimer = sched.debTimer
    ELSE sched'.thTimer /\ sched'.debTimer

\* a trigger handled by the zero-delay deferral alone
ThroughDeferralOnly ==
  /\ sched'.debTimer
  /\ sched'.thTimer = sched.thTimer
  /\ sched'.thPending = sched.thPending

\* C7 as stated: data-change, hover-change, target-change and resize events
\* all pass through the interval limiter.
C7_AllThroughLimiter ==
  [][ (listeners = AllHandlers
         /\ (TriggerData \/ TriggerHover \/ TriggerTarget \/ TriggerResize))
      => ThroughLimiter ]_vars

\* C7 amended: data-change events pass through the interval limiter (one
\* call at the leading edge, at most one more when the interval ends);
\* hover-change, target-change, visibility and resize events go to the
\* zero-delay deferral alone and are not held back by the interval.
C7_OnlyDataThroughLimiter ==
  /\ [][ listeners = AllHandlers
         => /\ TriggerData => ThroughLimiter
            /\ (~TriggerData /\ (TriggerHover \/ TriggerTarget
                                   \/ TriggerVisibility \/ TriggerResize))
                 => ThroughDeferralOnly
            /\ lastEvent'.op = "throttle.timer"
                 => /\ ~sched'.thTimer /\ ~sched'.thPending
                    /\ sched'.debTimer = (sched.debTimer \/ sched.thPending) ]_vars
  /\ [](sched.thPending => sched.thTimer)

\* a data change has been held back while the interval runs
C7_Witness ==
  /\ lastEvent.op = "histogram.changed"
  /\ lastEvent.pending
  /\ sched.thPending /\ ~sched.debTimer

\* C8: a draw pass that runs while the histogram is not visible zeroes the
\* shared buffer; the buffer stays zero, through a switch back to visible,
\* until the producer writes it; every draw pass renders the buffer as it
\* then is.
C8_ZeroingPersists ==
  [][ /\ (lastEvent'.op = "updateView" /\ ~visible)
           => (histogramData' = ZeroData /\ drawn'[1].data = ZeroData)
      /\ (histogramData = ZeroData /\ lastEvent'.op # "histogram.changed")
           => histogramData' = ZeroData
      /\ lastEvent'.op = "updateView" => drawn'[1].data = histogramData' ]_vars

\* a draw pass has run with the histogram visible again and rendered zeros
\* (the producer never writes an all-zero buffer here)
C8_Witness ==
  /\ lastEvent.op = "updateView"
  /\ visible
  /\ ZeroData \notin ProducerFrames
  /\ drawn[1].data = ZeroData

-----------------------------------------------------------------------------
(* Properties of the sign-inverted variant and of the origin exponent,     *)
(* checked under Spec.                                                     *)

VariantClass == "VolumeRenderingRenderScaleWidget"

\* C17: the variant applies the wheel action with the opposite sign: a
\* positive delta halves the target, a negative delta doubles it, the result
\* is clamped to [2 ** 1, 2 ** (round(1 + bins * binWidth) - 1)], and the
\* value before clamping is the one the base class computes for the delta -d.
C17_VariantInvertsWheel ==
  (WheelActed /\ widgetClass = VariantClass) =>
    LET d == lastEvent.deltaY
        moved == IF d > 0 THEN RatSub(lastEvent.before, Whole(1))
                          ELSE RatAdd(lastEvent.before, Whole(1))
        ofBase == RatAdd(lastEvent.before,
                         Whole(Sign(getWheelMoveValue("RenderScaleWidget", -d))))
        low == Whole(1)
        high == Whole(RatRound(RatAdd(Whole(1),
                                      RatMul(Whole(numRenderScaleHistogramBins),
                                             renderScaleHistogramBinSize))) - 1)
    IN  /\ ofBase = moved
        /\ target = RatMin(RatMax(low, moved), high)
        /\ target = RatMin(RatMax(low, ofBase), high)

\* the variant has halved a target inside its interval on a positive delta
C17_Witness ==
  /\ WheelActed
  /\ widgetClass = VariantClass
  /\ lastEvent.deltaY > 0
  /\ target = RatSub(lastEvent.before, Whole(1))
  /\ InWheelInterval(widgetClass, target)

\* C19: every draw pass of a control, the one run during construction
\* included, and every set, hover and wheel action map values to offsets
\* with the origin exponent of the control's class; for the variant that
\* exponent is 1 in every draw pass.
C19_OneOriginForLife ==
  /\ drawn # None => drawn[1].origin = logScaleOrigin(widgetClass)
  /\ (drawn # None /\ widgetClass = VariantClass) => drawn[1].origin = 1
  /\ lastEvent.op = "set"
       => target = ClickedValue(widgetClass, lastEvent.offsetX, canvasWidth)
  /\ lastEvent.op = "pointermove"
       => hoverTarget[1] = ClickedValue(widgetClass, lastEvent.offsetX, canvasWidth)
  /\ WheelActed => RatLe(Whole(logScaleOrigin(widgetClass)), target)

\* what a draw pass run now, on the state as it is, would paint and write
NextDrawPass ==
  updateView(ViewOf(target, hoverTarget, BufferAfterDraw(histogramData, visible),
                    offsetWidth, logScaleOrigin(widgetClass)),
             spatialScales, offsetHeight, fakeChunkCount, unitOfTarget(widgetClass))

\* C14: a draw pass leaves the target and the hover state as they were and,
\* while visible, the buffer as it read it; a second draw pass on the state
\* it leaves emits the same rectangles, in the same order, and the same three
\* texts.
C14_DrawPassIsIdempotent ==
  painted # None =>
    /\ lastEvent.op = "updateView"
         => /\ target = lastEvent.before
            /\ (hoverTarget # None) = lastEvent.hovering
    /\ drawn[1].target = target /\ drawn[1].hover = hoverTarget
    /\ drawn[1].data = histogramData
    /\ painted[1] = NextDrawPass

-----------------------------------------------------------------------------
(* Properties of the draw pass, checked under DrawSpec.                    *)

Bins == 0 .. numRenderScaleHistogramBins - 1

\* presentCount + notPresentCount of one series in one bin
SeriesCount(data, scales, key, bin) ==
  data[Cell(scales[key], 0, bin)] + data[Cell(scales[key], 1, bin)]

RECURSIVE SumOfSeries(_, _, _, _)
SumOfSeries(data, scales, keys, bin) ==
  IF keys = {} THEN 0
  ELSE LET k == CHOOSE k \in keys : TRUE IN
       SeriesCount(data, scales, k, bin) + SumOfSeries(data, scales, keys \ {k}, bin)

\* the bands of a bin as stated: the series in the order of the sorted keys,
\* from the last down, those with a zero count left out; yStart and yEnd are
\* the rounded heights of the cumulative count before and after the series
RECURSIVE StatedBands(_, _, _, _, _, _, _, _)
StatedBands(idx, sum, sorted, scales, data, bin, mc, height) ==
  IF idx < 1 THEN <<>>
  ELSE LET count == SeriesCount(data, scales, sorted[idx], bin) IN
       IF count = 0
         THEN StatedBands(idx - 1, sum, sorted, scales, data, bin, mc, height)
         ELSE <<[scale |-> sorted[idx],
                 yStart |-> roundedCountToCanvasY(sum, mc, height),
                 yEnd |-> roundedCountToCanvasY(sum + count, mc, height)]>>
              \o StatedBands(idx - 1, sum + count, sorted, scales, data, bin, mc,
                             height)

\* the bands of the bin under the hover value the last draw pass read
HoveredBin == RatFloor(getRenderScaleHistogramOffset(drawn[1].hover[1], drawn[1].origin))
HoveredBands ==
  LET sorted == sortedSpatialScales(spatialScales) IN
  StatedBands(Len(sorted), 0, sorted, spatialScales, drawn[1].data, HoveredBin,
              maxCount(drawn[1].data, Cardinality(DOMAIN spatialScales)),
              offsetHeight)

\* the last step was a draw pass that read a hover state over a bin of the
\* chart holding exactly two series with a non-zero count
HoverOverTwoSeries ==
  /\ painted # None
  /\ drawn[1].hover # None
  /\ HoveredBin \in Bins
  /\ Len(HoveredBands) = 2

BarsOfBin(bin) ==
  SelectSeq(painted[1].bars,
            LAMBDA r : r.x = RatRound(binToCanvasX(Whole(bin), drawn[1].width)))

\* C12: in every bin the series are filled from the highest key value down
\* to the lowest, and the order is the same for every registry with the same
\* keys.
C12_StackedByAscendingKeyValue ==
  painted # None =>
    /\ \A bin \in Bins :
         \A j, k \in 1 .. Len(BarsOfBin(bin)) :
           j < k => BarsOfBin(bin)[j].fillStyle.hue >= BarsOfBin(bin)[k].fillStyle.hue
    /\ \A other \in Registries :
         DOMAIN other = DOMAIN spatialScales
           => sortedSpatialScales(other) = sortedSpatialScales(spatialScales)

\* the smallest y of a non-empty sequence of bars
RECURSIVE TopOf(_)
TopOf(bars) ==
  IF Len(bars) = 1 THEN bars[1].y ELSE RatMin(bars[1].y, TopOf(Tail(bars)))

\* C13: in every draw pass and for every bin, the counts of all series sum
\* to the bin count of the height model, the stack of the bin ends at the
\* height of that count, no bar reaches above y = 0, and the stack of a bin
\* whose count is maxCount ends at y = 0.
C13_StackMatchesHeightModel ==
  painted # None =>
    LET data == drawn[1].data
        rows == Cardinality(DOMAIN spatialScales)
        mc == maxCount(data, rows)
    IN  \A bin \in Bins :
          LET total == SumOfSeries(data, spatialScales, DOMAIN spatialScales, bin)
              bars == BarsOfBin(bin)
          IN  /\ total = BinCount(data, rows, bin)
              /\ total <= mc
              /\ total = 0 => bars = <<>>
              /\ total > 0 =>
                   /\ bars # <<>>
                   /\ TopOf(bars) = Whole(roundedCountToCanvasY(total, mc, offsetHeight))
                   /\ RatLe(Whole(0), TopOf(bars))
                   /\ total = mc => TopOf(bars) = Whole(0)

\* a draw pass has stacked two series in a bin that is not the fullest and
\* ended below the top of the chart, while the fullest bin ends at y = 0
C13_Witness ==
  /\ painted # None
  /\ \E bin \in Bins :
       /\ Len(BarsOfBin(bin)) = 4
       /\ RatLt(Whole(0), TopOf(BarsOfBin(bin)))
  /\ \E bin \in Bins :
       /\ BarsOfBin(bin) # <<>>
       /\ TopOf(BarsOfBin(bin)) = Whole(0)

\* the value whose label the last draw pass wrote: the hover value if the
\* pointer hovers, else the target
LabelledValue ==
  IF drawn[1].hover = None THEN drawn[1].target ELSE drawn[1].hover[1]

\* C15: the label of x is the rounded integer when 1 <= x <= 1024, and
\* otherwise `${coeff}p${exponent}` with exponent = floor(log2(x)) and
\* coeff = x / 2 ** exponent, which lies in [1, 2).
C15_PixelNumberLabel ==
  painted # None =>
    LET x == LabelledValue
        label == painted[1].legendRenderScale[1]
    IN  IF RatLe(Whole(0), x) /\ RatLe(x, Whole(10))
          THEN label.form = "integer" /\ label.coeff = x
          ELSE /\ label.form = "p"
               /\ label.exponent = RatFloor(x)
               /\ label.coeff = RatSub(x, Whole(RatFloor(x)))
               /\ RatLe(Whole(0), label.coeff) /\ RatLt(label.coeff, Whole(1))

RECURSIVE SumOfCells(_, _)
SumOfCells(data, cells) ==
  IF cells = {} THEN 0
  ELSE LET c == CHOOSE c \in cells : TRUE IN data[c] + SumOfCells(data, cells \ {c})

\* the present and the not-present counts of the buffer, over all bins and
\* the rows of the registry
PresentOfBuffer(data) ==
  SumOfCells(data, {Cell(spatialScales[k], 0, bin) : k \in DOMAIN spatialScales,
                                                     bin \in Bins})
AbsentOfBuffer(data) ==
  SumOfCells(data, {Cell(spatialScales[k], 1, bin) : k \in DOMAIN spatialScales,
                                                     bin \in Bins})

\* C16: with no series hovered the chunk summary is P / (P + A - fakeChunkCount),
\* P and A summed over the buffer as the draw pass reads it; the total shown
\* is never negative and never below the present count shown, also in a draw
\* pass that runs while the histogram is not visible.
C16_ChunkSummaryExcludesFakeChunks ==
  painted # None =>
    LET shown == painted[1].legendChunks IN
    /\ painted[1].legendSpatialScale = None
         => /\ shown[1] = PresentOfBuffer(drawn[1].data)
            /\ shown[2] = PresentOfBuffer(drawn[1].data)
                            + AbsentOfBuffer(drawn[1].data) - fakeChunkCount
    /\ shown[2] >= 0
    /\ shown[2] >= shown[1]

\* C18: the bin the hover loop derives from pointer pixel x on a chart of
\* width W is the bin whose bars cover column x:
\* round(bin * W / bins) <= x < round((bin + 1) * W / bins).
C18_PickerAndRendererAgreeOnBin ==
  (lastEvent.op = "pointermove" /\ lastEvent.offsetX < canvasWidth) =>
    LET x == lastEvent.offsetX
        bin == hoverBin(hoverTarget, logScaleOrigin(widgetClass))
    IN  /\ bin \in Bins
        /\ RatRound(binToCanvasX(Whole(bin), canvasWidth)) <= x
        /\ x < RatRound(binToCanvasX(Whole(bin + 1), canvasWidth))

====
